---- MODULE Spec2Model ----
(***************************************************************************)
(* A model of the tutoring-service API: the request handlers of the        *)
(* students, issues and summary-report controllers, the e-mail service     *)
(* they notify through, and the document collections they persist to.      *)
(*                                                                         *)
(* Node runs one handler at a time and switches handlers only at an        *)
(* `await`; every action below is the code of one handler between two      *)
(* awaits (a database call and an e-mail send are each one atomic step).   *)
(*                                                                         *)
(* Strings are sequences of chunks: a chunk is a run of characters that    *)
(* the code never looks inside (such as "a@x.io"), a blank " " or a line   *)
(* break "\n".  Undefined is the absent value of an optional string.       *)
(***************************************************************************)
EXTENDS Integers, Sequences, FiniteSets, TLC

VARIABLES
  students,     \* collection 'students', in insertion order
  issues,       \* collection 'issues', in insertion order
  reports,      \* collection 'summary_reports', in insertion order
  env,          \* the configuration read from the environment
  transporter,  \* EmailService.transporter is not null
  configured,   \* EmailService.configured
  reqs,         \* the requests being served, one per connection slot
  input         \* the input drawn for the operation under study (SpecLegacy, SpecMerge)

vars == <<students, issues, reports, env, transporter, configured, reqs, input>>

----------------------------------------------------------------------------
(* Bounds *)

MaxRequests == 2

MaxStudents == 2

MaxIssues == 1

MaxReports == 3

Requests == 1..MaxRequests

----------------------------------------------------------------------------
(* Strings *)

Undefined == <<"undefined">>

Falsy(s) == s = Undefined \/ s = <<>>

IsSpace(c) == c \in {" ", "\n"}

LowerChunk(c) ==
  CASE c = "A@x.io" -> "a@x.io"
    [] c = "B@x.io" -> "b@x.io"
    [] c = "G@x.io" -> "g@x.io"
    [] c = "H@x.io" -> "h@x.io"
    [] c = "Maths" -> "maths"
    [] OTHER -> c

toLowerCase(s) == [i \in DOMAIN s |-> LowerChunk(s[i])]

RECURSIVE trimStart(_)
trimStart(s) ==
  IF s # <<>> /\ IsSpace(Head(s)) THEN trimStart(Tail(s)) ELSE s

RECURSIVE trimEnd(_)
trimEnd(s) ==
  IF s # <<>> /\ IsSpace(s[Len(s)]) THEN trimEnd(SubSeq(s, 1, Len(s) - 1)) ELSE s

trim(s) == trimEnd(trimStart(s))

EmailChunks == {"a@x.io", "A@x.io", "b@x.io", "B@x.io", "g@x.io", "G@x.io", "h@x.io", "H@x.io"}

\* z.string().email(): one address, no blanks around or inside it
IsEmail(s) == Len(s) = 1 /\ s[1] \in EmailChunks

----------------------------------------------------------------------------
(* Configuration and the e-mail service *)

Envs ==
  { [emailHost |-> h, emailUser |-> h, emailPass |-> p,
     studentAlertTo |-> s, issueAlertTo |-> i, summaryReportAlertTo |-> i] :
      h \in BOOLEAN, p \in BOOLEAN, s \in BOOLEAN, i \in BOOLEAN }

hasRequiredConfig == env.emailHost /\ env.emailUser /\ env.emailPass

\* the transporter and the flag after buildTransporter; createOk: createTransport returned
buildTransporter(createOk) ==
  IF ~hasRequiredConfig THEN [transporter |-> FALSE, configured |-> FALSE]
  ELSE IF transporter THEN [transporter |-> TRUE, configured |-> configured]
  ELSE IF createOk THEN [transporter |-> TRUE, configured |-> TRUE]
  ELSE [transporter |-> FALSE, configured |-> FALSE]

\* what can happen to a notification: the mail is accepted ("ok"), every attempt
\* of sendMail is rejected ("fail"), createTransport throws ("nocreate"), or an
\* exception is raised inside the handler's try block ("throw")
SendOutcomes == {"ok", "fail", "nocreate", "throw"}

\* EmailService.send: the service's state afterwards and the SendResult
send(outcome) ==
  LET built == buildTransporter(outcome # "nocreate") IN
  IF ~built.transporter
    THEN [transporter |-> FALSE, configured |-> built.configured, result |-> "skipped"]
  ELSE IF outcome # "fail"
    THEN [transporter |-> TRUE, configured |-> TRUE, result |-> "sent"]
  ELSE [transporter |-> TRUE, configured |-> built.configured, result |-> "failed"]

getStatus ==
  [ configured |-> configured /\ hasRequiredConfig,
    host |-> IF env.emailHost THEN "smtp.x.io" ELSE "not-set",
    user |-> IF env.emailUser THEN "***configured***" ELSE "not-set",
    from |-> IF env.emailUser THEN "user" ELSE "no-reply@example.com" ]

\* A notification attempt of a handler whose alert recipient is alertTo: the
\* handler returns early without a recipient and catches what the attempt throws.
maybeSend(alertTo, outcome) ==
  IF ~alertTo
    THEN [transporter |-> transporter, configured |-> configured, result |-> "skipped"]
  ELSE IF outcome = "throw"
    THEN [transporter |-> transporter, configured |-> configured, result |-> "threw"]
  ELSE send(outcome)

----------------------------------------------------------------------------
(* Requests and responses *)

Idle ==
  [ handler |-> "none", pc |-> "idle", raw |-> <<>>, body |-> <<>>,
    docId |-> 0, mail |-> "none", via |-> "", status |-> 0, code |-> "", log |-> <<>> ]

Free(r) == reqs[r].pc \in {"idle", "done"}

\* a request is accepted on the first connection slot that serves none
Accepts(r) == Free(r) /\ \A r2 \in Requests : r2 < r => ~Free(r2)

\* a response that has been sent leaves its slot free
Sweep == [r \in Requests |-> IF reqs[r].pc = "done" THEN Idle ELSE reqs[r]]

\* slot r continues as q
Step(r, q) == reqs' = [Sweep EXCEPT ![r] = q]

Receive(h, raw) == [Idle EXCEPT !.handler = h, !.raw = raw]

Respond(q, status, code) ==
  [q EXCEPT !.pc = "done", !.status = status, !.code = code,
            !.log = Append(q.log, "respond")]

\* an error handler that knows no ZodError
errorHandlerNoZod(q, zodError) ==
  [q EXCEPT !.pc = "done", !.status = 500, !.code = "INTERNAL_ERROR"]

\* middlewares/error.js: a ZodError is answered 400, any other error by its status or 500
errorHandler(q, zodError) ==
  IF zodError
    THEN [q EXCEPT !.pc = "done", !.status = 400, !.code = "VALIDATION_ERROR"]
    ELSE [q EXCEPT !.pc = "done", !.status = 500, !.code = "INTERNAL_ERROR"]

\* a handler that lets a failed notification fail the request
NotifiedOrFailed(q, m) ==
  IF m.result \in {"failed", "threw"}
    THEN errorHandler([q EXCEPT !.mail = m.result], FALSE)
    ELSE [q EXCEPT !.pc = "respond", !.mail = m.result, !.log = Append(@, "notify")]

\* the request once `await maybeSend...Email(...)` has returned with result m: the
\* helper catches what the attempt throws, so the handler goes on to respond
Notified(q, m) ==
  [q EXCEPT !.pc = "respond", !.mail = m.result, !.log = Append(@, "notify")]

InFlight(hs) == Cardinality({r \in Requests : reqs[r].handler \in hs /\ reqs[r].pc # "done"})

----------------------------------------------------------------------------
(* Students: models/Student.js and the students controller *)

Enrolment(subject) ==
  [subject |-> subject, country |-> <<"uk">>, examBody |-> <<"aqa">>, level |-> <<"gcse">>]

\* request bodies of POST /students; POST /flowise/student wraps one as {id, payload}
StudentBodies ==
  { [email |-> <<"a@x.io">>, guardian |-> <<"g@x.io">>, enrolments |-> <<Enrolment(<<"maths">>)>>],
    [email |-> <<"A@x.io">>, guardian |-> <<" ", "G@x.io">>, enrolments |-> <<Enrolment(<<"maths">>)>>],
    [email |-> <<"b@x.io">>, guardian |-> <<"h@x.io", " ">>, enrolments |-> <<Enrolment(<<"maths", " ">>)>>],
    [email |-> <<" ", "a@x.io">>, guardian |-> <<"g@x.io">>, enrolments |-> <<Enrolment(<<"maths">>)>>],
    [email |-> <<"a@x.io">>, guardian |-> <<"A@x.io">>, enrolments |-> <<Enrolment(<<"maths">>)>>],
    [email |-> <<"b@x.io">>, guardian |-> <<"g@x.io">>, enrolments |-> <<>>] }

StudentHandlers == {"createStudent", "createStudentFromFlowise"}

enrolmentSchema(e) ==
  e.subject # <<>> /\ e.country # <<>> /\ e.examBody # <<>> /\ e.level # <<>>

\* manualSchema: the preprocess step trims the guardian e-mail before the checks
manualSchemaParsed(b) == [b EXCEPT !.guardian = trim(b.guardian)]

\* a schema that accepts every body
manualSchemaAccepting(b) == TRUE

\* manualSchema of the students controller, superRefine included
manualSchema(b) ==
  LET p == manualSchemaParsed(b) IN
  /\ IsEmail(p.email)
  /\ p.guardian # <<>> /\ IsEmail(p.guardian)
  /\ Len(p.enrolments) >= 1
  /\ \A i \in DOMAIN p.enrolments : enrolmentSchema(p.enrolments[i])
  /\ toLowerCase(trim(p.email)) # toLowerCase(trim(p.guardian))

normalizeEnrolment(e) ==
  [e EXCEPT !.subject = trim(e.subject), !.country = trim(e.country),
            !.examBody = trim(e.examBody), !.level = trim(e.level)]

normalizeStudentPayload(p) ==
  [ email |-> toLowerCase(trim(p.email)),
    guardian |-> toLowerCase(trim(p.guardian)),
    enrolments |-> [i \in DOMAIN p.enrolments |-> normalizeEnrolment(p.enrolments[i])] ]

\* Student.exists({ email })
StudentExists(email) == \E i \in DOMAIN students : students[i].email = email

DuplicateKeyNoIndex(email) == FALSE

\* the unique index on students.email rejects the insert with error code 11000
DuplicateKey(email) == \E i \in DOMAIN students : students[i].email = email

\* the API code resolveDuplicateField gives for the index key named by the error
resolveDuplicateField(key) ==
  IF key = "guardian.email" THEN "STUDENT_GUARDIAN_EMAIL_EXISTS" ELSE "STUDENT_EMAIL_EXISTS"

handleDuplicateKeyErrorUncaught(q, errCode, key) == errorHandler(q, FALSE)

\* the catch block of the create handlers: 409 for a duplicate key, else next(error)
handleDuplicateKeyError(q, errCode, key) ==
  IF errCode = 11000
    THEN [q EXCEPT !.pc = "done", !.status = 409, !.code = resolveDuplicateField(key)]
    ELSE errorHandler(q, FALSE)

StudentDoc(q) ==
  [ email |-> q.body.email, guardian |-> q.body.guardian, enrolments |-> q.body.enrolments,
    source |-> IF q.handler = "createStudent" THEN "manual" ELSE "flowise",
    createdAt |-> Len(students) + 1 ]

\* a create request arrives: schema parse and normalizeStudentPayload, up to the first
\* await; the body as received (raw) is not read again once it has been parsed
studentParse(r, h, b) ==
  /\ Accepts(r)
  /\ Len(students) < MaxStudents
  /\ LET q == Receive(h, b) IN
       Step(r, IF manualSchema(b)
                 THEN [q EXCEPT !.pc = "exists", !.raw = <<>>,
                                !.body = normalizeStudentPayload(manualSchemaParsed(b)),
                                !.log = <<"validate", "normalize">>]
                 ELSE errorHandler([q EXCEPT !.log = <<"validate">>], TRUE))
  /\ UNCHANGED <<students, issues, reports, env, transporter, configured, input>>

\* respondIfEmailConflict
studentExists(r) ==
  /\ reqs[r].pc = "exists"
  /\ Step(r, IF StudentExists(reqs[r].body.email)
                THEN [reqs[r] EXCEPT !.pc = "done", !.status = 409,
                                     !.code = "STUDENT_EMAIL_EXISTS", !.via = "exists"]
                ELSE [reqs[r] EXCEPT !.pc = "create"])
  /\ UNCHANGED <<students, issues, reports, env, transporter, configured, input>>

\* Student.create and, when it throws, the handler's catch block
studentCreate(r) ==
  /\ reqs[r].pc = "create"
  /\ IF DuplicateKey(reqs[r].body.email)
       THEN /\ Step(r, handleDuplicateKeyError([reqs[r] EXCEPT !.via = "index"], 11000, "email"))
            /\ UNCHANGED students
       ELSE /\ students' = Append(students, StudentDoc(reqs[r]))
            /\ Step(r, [reqs[r] EXCEPT !.pc = "notify", !.docId = Len(students) + 1,
                                       !.log = Append(@, "persist")])
  /\ UNCHANGED <<issues, reports, env, transporter, configured, input>>

\* maybeSendStudentEmail
studentNotify(r, outcome) ==
  /\ reqs[r].pc = "notify"
  /\ reqs[r].handler \in StudentHandlers
  /\ LET m == maybeSend(env.studentAlertTo, outcome) IN
       /\ transporter' = m.transporter
       /\ configured' = m.configured
       /\ Step(r, Notified(reqs[r], m))
  /\ UNCHANGED <<students, issues, reports, env, input>>

studentRespond(r) ==
  /\ reqs[r].pc = "respond"
  /\ reqs[r].handler \in StudentHandlers
  /\ Step(r, Respond(reqs[r], IF reqs[r].handler = "createStudent" THEN 201 ELSE 202, ""))
  /\ UNCHANGED <<students, issues, reports, env, transporter, configured, input>>

----------------------------------------------------------------------------
(* Issues: models/Issue.js and the issues controller *)

\* request bodies of POST /issues; POST /flowise/issue-report carries one as payload
IssueBodies ==
  { [payload |-> TRUE, title |-> <<"bug">>],
    [payload |-> TRUE, title |-> <<>>],
    [payload |-> TRUE, title |-> Undefined],
    [payload |-> FALSE, title |-> Undefined] }

IssueHandlers == {"createIssue", "createIssueFromFlowise"}

\* manualSchema of the issues controller: title is a string of at least one character
issueManualSchema(b) == b.title # Undefined /\ Len(b.title) >= 1

\* flowiseSchema of the issues controller: payload is an object, its title is optional
issueFlowiseSchema(b) == b.payload

\* parseFlowiseIssuePayload: title defaults to 'Issue' when the payload has none
parseFlowiseIssuePayload(b) ==
  [title |-> IF b.title = Undefined THEN <<"Issue">> ELSE b.title]

\* the Issue schema requires title: mongoose rejects an empty one
IssueSchemaOk(doc) == doc.title # <<>>

buildIssueDocument(q) ==
  [ title |-> q.body.title,
    source |-> IF q.handler = "createIssue" THEN "manual" ELSE "flowise",
    createdAt |-> Len(issues) + 1 ]

issueParse(r, h, b) ==
  /\ Accepts(r)
  /\ Len(issues) < MaxIssues
  /\ LET q == Receive(h, b)
         ok == IF h = "createIssue" THEN issueManualSchema(b) ELSE issueFlowiseSchema(b)
         parsed == IF h = "createIssue" THEN [title |-> b.title]
                                        ELSE parseFlowiseIssuePayload(b)
     IN Step(r, IF ok
                  THEN [q EXCEPT !.pc = "createIssue", !.raw = <<>>, !.body = parsed,
                                 !.log = IF h = "createIssue" THEN <<"validate">>
                                                              ELSE <<"validate", "normalize">>]
                  ELSE errorHandler([q EXCEPT !.log = <<"validate">>], TRUE))
  /\ UNCHANGED <<students, issues, reports, env, transporter, configured, input>>

\* Issue.create and, when it throws, next(err)
issueCreate(r) ==
  /\ reqs[r].pc = "createIssue"
  /\ IF IssueSchemaOk(buildIssueDocument(reqs[r]))
       THEN /\ issues' = Append(issues, buildIssueDocument(reqs[r]))
            /\ Step(r, [reqs[r] EXCEPT !.pc = "notify", !.docId = Len(issues) + 1,
                                       !.log = Append(@, "persist")])
       ELSE /\ Step(r, errorHandler(reqs[r], FALSE))
            /\ UNCHANGED issues
  /\ UNCHANGED <<students, reports, env, transporter, configured, input>>

\* maybeSendIssueEmail
issueNotify(r, outcome) ==
  /\ reqs[r].pc = "notify"
  /\ reqs[r].handler \in IssueHandlers
  /\ LET m == maybeSend(env.issueAlertTo, outcome) IN
       /\ transporter' = m.transporter
       /\ configured' = m.configured
       /\ Step(r, Notified(reqs[r], m))
  /\ UNCHANGED <<students, issues, reports, env, input>>

issueRespond(r) ==
  /\ reqs[r].pc = "respond"
  /\ reqs[r].handler \in IssueHandlers
  /\ Step(r, Respond(reqs[r], IF reqs[r].handler = "createIssue" THEN 201 ELSE 202, ""))
  /\ UNCHANGED <<students, issues, reports, env, transporter, configured, input>>

\* GET /email-status
emailStatus(r) ==
  /\ Accepts(r)
  /\ Step(r, [Receive("emailStatus", <<>>) EXCEPT !.pc = "done", !.status = 200,
                                                  !.body = getStatus])
  /\ UNCHANGED <<students, issues, reports, env, transporter, configured, input>>

----------------------------------------------------------------------------
(* JSON values of a summary-report body: absent, string, array, object *)

U == [t |-> "u"]

S(s) == [t |-> "s", v |-> s]

A(a) == [t |-> "a", v |-> a]

O(o) == [t |-> "o", v |-> o]

\* !!v
Truthy(v) == v.t \in {"o", "a"} \/ (v.t = "s" /\ v.v # <<>>)

\* typeof v === 'object', for a v that is not null
IsObject(v) == v.t \in {"o", "a"}

\* v || ''
OrEmpty(v) == IF Truthy(v) THEN v ELSE S(<<>>)

IdentityKeys == {"name", "email"}

ContextKeys == {"chatId", "sessionId", "chatflowId", "source", "sourceId"}

arrayFields ==
  << "participants", "topics", "scopeCovered", "keyLearnings", "misconceptionsClarified",
     "studentStrengths", "gapsNextPriorities", "suggestedNextSteps", "questions",
     "compactRecap" >>

ArrayFieldSet == {arrayFields[i] : i \in DOMAIN arrayFields}

ReportKeys ==
  {"studentId", "title", "identity", "context", "name", "email", "date", "sources"}
    \cup ContextKeys \cup ArrayFieldSet

\* the keys of an object literal that has none
NoKeys(keys) == [k \in keys |-> U]

\* { ...v }: the own keys of an object, none for an absent value
Spread(v, keys) == IF v.t = "o" THEN v.v ELSE NoKeys(keys)

\* { ...a, ...b } over the same keys: b's keys override a's
Merge(a, b) == [k \in DOMAIN a |-> IF b[k] # U THEN b[k] ELSE a[k]]

\* index of the first line break of s, 0 when it has none
FirstBreak(s) ==
  IF \E i \in DOMAIN s : s[i] = "\n"
    THEN CHOOSE i \in DOMAIN s : s[i] = "\n" /\ \A j \in 1..(i - 1) : s[j] # "\n"
    ELSE 0

\* s.split('\n')
RECURSIVE split(_)
split(s) ==
  LET i == FirstBreak(s) IN
  IF i = 0 THEN <<s>>
  ELSE <<SubSeq(s, 1, i - 1)>> \o split(SubSeq(s, i + 1, Len(s)))

NonEmpty(x) == x # <<>>

\* value.split('\n').map((item) => item.trim()).filter((item) => item.length > 0)
TrimmedLines(value) ==
  LET parts == split(value)
      items == [i \in DOMAIN parts |-> trim(parts[i])]
  IN SelectSeq(items, NonEmpty)

\* the forEach body over arrayFields: a non-empty string becomes the list of its lines
stringToList(v) ==
  IF Truthy(v) /\ v.t = "s"
    THEN LET value == trim(v.v) IN
         IF value # <<>>
           THEN LET ls == TrimmedLines(value) IN A([i \in DOMAIN ls |-> S(ls[i])])
           ELSE A(<<>>)
    ELSE v

\* a non-empty sources string becomes one {type: 'reference', ref} per line
stringToSources(v) ==
  IF Truthy(v) /\ v.t = "s"
    THEN LET sourcesText == trim(v.v) IN
         IF sourcesText # <<>>
           THEN LET ls == TrimmedLines(sourcesText) IN
                A([i \in DOMAIN ls |-> O([type |-> S(<<"reference">>), ref |-> S(ls[i])])])
           ELSE A(<<>>)
    ELSE v

transformLegacyFormat(data) ==
  IF Truthy(data["identity"]) /\ IsObject(data["identity"]) THEN data
  ELSE
    LET moveIdentity == Truthy(data["name"]) \/ Truthy(data["email"])
        contextFields == [k \in ContextKeys |-> IF Truthy(data[k]) THEN data[k] ELSE U]
        hasContextFields == \E k \in ContextKeys : contextFields[k] # U
    IN [k \in DOMAIN data |->
          IF k = "identity"
            THEN IF moveIdentity
                   THEN O([name |-> OrEmpty(data["name"]), email |-> OrEmpty(data["email"])])
                   ELSE data[k]
          ELSE IF k \in {"name", "email"} THEN IF moveIdentity THEN U ELSE data[k]
          ELSE IF k = "context"
            THEN IF hasContextFields
                   THEN O(Merge(Spread(data["context"], ContextKeys), contextFields))
                   ELSE data[k]
          ELSE IF k \in ContextKeys \cup {"date"} THEN U
          ELSE IF k \in ArrayFieldSet THEN stringToList(data[k])
          ELSE IF k = "sources" THEN stringToSources(data[k])
          ELSE data[k]]

----------------------------------------------------------------------------
(* Summary reports: models/SummaryReport.js and the summary-reports controller *)

ReportHandlers == {"createSummaryReport", "createSummaryReportFromFlowise"}

HeaderNames ==
  {"name", "email", "studentid", "x-flow-chat-id", "x-flow-session-id", "x-flow-chatflow-id"}

\* a header as a body value: an absent or empty header supplies nothing
HeaderValue(h) == IF Falsy(h) THEN U ELSE S(h)

extractHeaderData(headers) ==
  [ identity |->
      IF ~Falsy(headers["name"]) \/ ~Falsy(headers["email"])
        THEN O([name |-> HeaderValue(headers["name"]), email |-> HeaderValue(headers["email"])])
        ELSE U,
    studentId |-> HeaderValue(headers["studentid"]),
    context |->
      IF \E n \in {"x-flow-chat-id", "x-flow-session-id", "x-flow-chatflow-id"} :
           ~Falsy(headers[n])
        THEN O([ chatId |-> HeaderValue(headers["x-flow-chat-id"]),
                 sessionId |-> HeaderValue(headers["x-flow-session-id"]),
                 chatflowId |-> HeaderValue(headers["x-flow-chatflow-id"]),
                 source |-> U, sourceId |-> U ])
        ELSE U ]

mergedBodyFirst(transformed, headerData, fixed) ==
  [k \in DOMAIN transformed |->
     IF k = "context"
       THEN O(Merge(Merge(Spread(headerData.context, ContextKeys),
                          Spread(transformed["context"], ContextKeys)), fixed))
     ELSE IF k = "identity"
       THEN O(Merge(Spread(headerData.identity, IdentityKeys),
                    Spread(transformed["identity"], IdentityKeys)))
     ELSE IF k = "studentId" /\ transformed[k] = U THEN headerData.studentId
     ELSE transformed[k]]

\* mergedData / mergedPayload: the transformed body, then the header data, then
\* context and identity merged key by key; fixed holds the source and sourceId the handler sets
mergedData(transformed, headerData, fixed) ==
  [k \in DOMAIN transformed |->
     IF k = "context"
       THEN O(Merge(Merge(Spread(transformed["context"], ContextKeys),
                          Spread(headerData.context, ContextKeys)), fixed))
     ELSE IF k = "identity"
       THEN O(Merge(Spread(transformed["identity"], IdentityKeys),
                    Spread(headerData.identity, IdentityKeys)))
     ELSE IF k = "studentId" /\ headerData.studentId # U THEN headerData.studentId
     ELSE transformed[k]]

IsString1(v) == v.t = "s" /\ v.v # <<>>

OptionalString(v) == v.t \in {"u", "s"}

StringArray(v) == v.t = "a" /\ \A i \in DOMAIN v.v : v.v[i].t = "s"

sourceSchema(v) == v.t = "o" /\ IsString1(v.v.type) /\ IsString1(v.v.ref)

baseReportSchema(m) ==
  /\ IsString1(m["studentId"])
  /\ IsString1(m["title"])
  /\ m["identity"].t = "o"
  /\ IsString1(m["identity"].v.name)
  /\ m["identity"].v.email.t = "s" /\ IsEmail(m["identity"].v.email.v)
  /\ m["context"].t = "u"
       \/ (m["context"].t = "o" /\ \A k \in ContextKeys : OptionalString(m["context"].v[k]))
  /\ StringArray(m["participants"]) /\ Len(m["participants"].v) >= 1
  /\ StringArray(m["scopeCovered"]) /\ Len(m["scopeCovered"].v) >= 1
  /\ \A k \in ArrayFieldSet \ {"participants", "scopeCovered"} :
       m[k].t = "u" \/ StringArray(m[k])
  /\ m["sources"].t = "u"
       \/ (m["sources"].t = "a" /\ \A i \in DOMAIN m["sources"].v : sourceSchema(m["sources"].v[i]))

\* the parsed report, as far as the collection stores it: unknown keys are stripped
baseReportParsed(m) ==
  [ studentId |-> m["studentId"].v,
    title |-> m["title"].v,
    identity |-> [name |-> m["identity"].v.name.v, email |-> m["identity"].v.email.v],
    context |-> [k \in ContextKeys |->
                   IF m["context"].v[k].t = "s" THEN m["context"].v[k].v ELSE Undefined] ]

ObjectIdChunk(n) ==
  CASE n = 1 -> "id1" [] n = 2 -> "id2" [] n = 3 -> "id3" [] n = 4 -> "id4"
    [] n = 5 -> "id5" [] OTHER -> "id6"

ReportIdChunk(n) ==
  CASE n = 1 -> "rp1" [] n = 2 -> "rp2" [] n = 3 -> "rp3" [] n = 4 -> "rp4"
    [] n = 5 -> "rp5" [] OTHER -> "rp6"

ObjectIdChunks == {ObjectIdChunk(n) : n \in 1..6} \cup {ReportIdChunk(n) : n \in 1..6}

\* a string mongoose can cast to an ObjectId
IsObjectId(s) == Len(s) = 1 /\ s[1] \in ObjectIdChunks

\* the document SummaryReport.create stores: schema defaults fill the absent context keys
ReportDoc(q) ==
  [ studentId |-> q.body.studentId,
    title |-> q.body.title,
    identity |-> q.body.identity,
    context |-> [k \in ContextKeys |->
                   IF q.body.context[k] = Undefined
                     THEN (IF k = "source" THEN <<"manual">> ELSE <<>>)
                     ELSE q.body.context[k]],
    createdAt |-> Len(reports) + 1 ]

\* the context keys the handler sets itself: source, and sourceId for the webhook
fixedContext(h, raw) ==
  IF h = "createSummaryReport"
    THEN [NoKeys(ContextKeys) EXCEPT !["source"] = S(<<"manual">>)]
    ELSE [NoKeys(ContextKeys) EXCEPT
            !["source"] = S(<<"flowise">>),
            !["sourceId"] = S(IF raw.id = Undefined THEN <<>> ELSE raw.id)]

\* what the handler hands to the schema.  raw.body is req.body (req.body.payload for
\* the Flowise webhook) and raw.id the webhook's id.
mergedRequest(h, raw) ==
  mergedData(transformLegacyFormat(raw.body), extractHeaderData(raw.headers),
             fixedContext(h, raw))

\* a create request arrives: header extraction, legacy transformation, merge and
\* schema parse, up to the first await
reportParse(r, h, raw) ==
  /\ Accepts(r)
  /\ Len(reports) < MaxReports
  /\ LET q == Receive(h, raw)
         merged == mergedRequest(h, raw)
     IN Step(r, IF baseReportSchema(merged)
                  THEN [q EXCEPT !.pc = "createReport", !.raw = <<>>,
                                 !.body = baseReportParsed(merged),
                                 !.log = <<"normalize", "validate">>]
                  ELSE errorHandler([q EXCEPT !.log = <<"normalize", "validate">>], TRUE))
  /\ UNCHANGED <<students, issues, reports, env, transporter, configured, input>>

\* SummaryReport.create and, when it throws (studentId is no ObjectId), next(err)
reportCreate(r) ==
  /\ reqs[r].pc = "createReport"
  /\ IF IsObjectId(reqs[r].body.studentId)
       THEN /\ reports' = Append(reports, ReportDoc(reqs[r]))
            /\ Step(r, [reqs[r] EXCEPT !.pc = "notify", !.docId = Len(reports) + 1,
                                       !.log = Append(@, "persist")])
       ELSE /\ Step(r, errorHandler(reqs[r], FALSE))
            /\ UNCHANGED reports
  /\ UNCHANGED <<students, issues, env, transporter, configured, input>>

\* maybeSendReportEmail
reportNotify(r, outcome) ==
  /\ reqs[r].pc = "notify"
  /\ reqs[r].handler \in ReportHandlers
  /\ LET m == maybeSend(env.summaryReportAlertTo, outcome) IN
       /\ transporter' = m.transporter
       /\ configured' = m.configured
       /\ Step(r, Notified(reqs[r], m))
  /\ UNCHANGED <<students, issues, reports, env, input>>

reportRespond(r) ==
  /\ reqs[r].pc = "respond"
  /\ reqs[r].handler \in ReportHandlers
  /\ Step(r, Respond(reqs[r], 201, ""))
  /\ UNCHANGED <<students, issues, reports, env, transporter, configured, input>>

InitDb ==
  /\ students = <<>>
  /\ issues = <<>>
  /\ reports = <<>>
  /\ transporter = FALSE
  /\ configured = FALSE
  /\ reqs = [r \in Requests |-> Idle]
  /\ input = <<>>

InitStudents ==
  /\ InitDb
  /\ env \in {e \in Envs : e.emailHost /\ e.emailPass /\ ~e.issueAlertTo}

NextStudents ==
  \E r \in Requests :
    \/ \E h \in StudentHandlers, b \in StudentBodies : studentParse(r, h, b)
    \/ studentExists(r)
    \/ studentCreate(r)
    \/ \E outcome \in SendOutcomes : studentNotify(r, outcome)
    \/ studentRespond(r)

SpecStudents == InitStudents /\ [][NextStudents]_vars

----------------------------------------------------------------------------
(* transformLegacyFormat on its own: SpecLegacy draws a body, then applies it *)

MaxStrLen == 3

LineChunks == {"x", "y", " ", "\n"}

Strings == UNION {[1..n -> LineChunks] : n \in 0..MaxStrLen}

\* a body with no key but title and studentId
EmptyBody ==
  [k \in ReportKeys |->
     IF k = "title" THEN S(<<"recap">>)
     ELSE IF k = "studentId" THEN S(<<"id1">>)
     ELSE U]

OldContext == O([NoKeys(ContextKeys) EXCEPT !["chatId"] = S(<<"old">>), !["source"] = S(<<"old">>)])

\* bodies that differ from EmptyBody in name, email and identity
IdentityInputs ==
  { [EmptyBody EXCEPT !["name"] = n, !["email"] = e, !["identity"] = i] :
      n \in {U, S(<<>>), S(<<"ann">>)},
      e \in {U, S(<<>>), S(<<"a@x.io">>)},
      i \in {U, S(<<"ann">>), O([name |-> S(<<"ann">>), email |-> U])} }

\* bodies that differ from EmptyBody in the context keys, context and date
ContextInputs ==
  { [EmptyBody EXCEPT !["source"] = f[1], !["sourceId"] = f[2], !["chatId"] = f[3],
                      !["sessionId"] = f[4], !["chatflowId"] = f[5],
                      !["context"] = c, !["date"] = d] :
      f \in [1..5 -> {U, S(<<>>), S(<<"new">>)}],
      c \in {U, OldContext},
      d \in {U, S(<<"today">>)} }

\* bodies that differ from EmptyBody in list fields and in sources
ListInputs ==
  { [EmptyBody EXCEPT !["participants"] = S(s), !["compactRecap"] = c] :
      s \in Strings, c \in {U, S(<<>>), S(<<"x", "\n", "y">>), A(<<S(<<" ", "x">>)>>)} }
  \cup { [EmptyBody EXCEPT !["sources"] = S(s)] : s \in Strings }
  \cup { [EmptyBody EXCEPT !["sources"] = A(<<O([type |-> S(<<"spec">>), ref |-> S(<<"x">>)])>>)] }

LegacyInputs == IdentityInputs \cup ContextInputs \cup ListInputs

InitLegacy ==
  /\ students = <<>>
  /\ issues = <<>>
  /\ reports = <<>>
  /\ transporter = FALSE
  /\ configured = FALSE
  /\ reqs = [r \in Requests |-> Idle]
  /\ env \in {e \in Envs : ~e.emailHost /\ ~e.emailPass /\ ~e.studentAlertTo /\ ~e.issueAlertTo}
  /\ input \in {[pc |-> "call", data |-> d, out |-> EmptyBody] : d \in LegacyInputs}

callTransformLegacyFormat ==
  /\ input.pc = "call"
  /\ input' = [input EXCEPT !.pc = "returned", !.out = transformLegacyFormat(input.data)]
  /\ UNCHANGED <<students, issues, reports, env, transporter, configured, reqs>>

NextLegacy == callTransformLegacyFormat

SpecLegacy == InitLegacy /\ [][NextLegacy]_vars

----------------------------------------------------------------------------
(* Header merging on its own: SpecMerge draws one request and serves it *)

NewFormatBody ==
  [EmptyBody EXCEPT
     !["identity"] = O([name |-> S(<<"ann">>), email |-> S(<<"a@x.io">>)]),
     !["context"] = O([NoKeys(ContextKeys) EXCEPT !["chatId"] = S(<<"chat-b">>),
                                                  !["sessionId"] = S(<<"sess-b">>),
                                                  !["chatflowId"] = S(<<"flow-b">>)]),
     !["participants"] = A(<<S(<<"ann">>)>>),
     !["scopeCovered"] = A(<<S(<<"algebra">>)>>)]

MergeBodies ==
  { NewFormatBody,
    [NewFormatBody EXCEPT !["context"] = U],
    [NewFormatBody EXCEPT !["context"] = O([NoKeys(ContextKeys) EXCEPT !["chatId"] = S(<<"chat-b">>)])],
    [NewFormatBody EXCEPT !["identity"] = O([name |-> S(<<"ann">>), email |-> U])],
    [NewFormatBody EXCEPT !["studentId"] = U],
    [EmptyBody EXCEPT !["name"] = S(<<"ann">>), !["email"] = S(<<"a@x.io">>),
                      !["chatId"] = S(<<"chat-b">>),
                      !["participants"] = S(<<"ann", "\n", "bob">>),
                      !["scopeCovered"] = S(<<"algebra">>)] }

MergeHeaders ==
  { [n \in HeaderNames |->
       CASE n = "name" -> hn
         [] n = "email" -> IF he THEN <<"H@x.io">> ELSE Undefined
         [] n = "studentid" -> IF hs THEN <<"id2">> ELSE Undefined
         [] n = "x-flow-chat-id" -> IF hc[1] THEN <<"chat-h">> ELSE Undefined
         [] n = "x-flow-session-id" -> IF hc[2] THEN <<"sess-h">> ELSE Undefined
         [] OTHER -> IF hc[3] THEN <<"flow-h">> ELSE Undefined] :
      hn \in {Undefined, <<>>, <<"hana">>}, he \in BOOLEAN, hs \in BOOLEAN,
      hc \in [1..3 -> BOOLEAN] }

MergeInputs ==
  { [h |-> h, raw |-> [body |-> b, headers |-> hd, id |-> <<"run1">>]] :
      h \in ReportHandlers, b \in MergeBodies, hd \in MergeHeaders }

InitMerge ==
  /\ students = <<>>
  /\ issues = <<>>
  /\ reports = <<>>
  /\ transporter = FALSE
  /\ configured = FALSE
  /\ reqs = [r \in Requests |-> Idle]
  /\ env \in {e \in Envs : ~e.emailHost /\ ~e.emailPass /\ ~e.studentAlertTo /\ ~e.issueAlertTo}
  /\ input \in MergeInputs

\* the request is served again only after the previous run has answered
NextMerge ==
  \E r \in Requests :
    \/ (\A r2 \in Requests : Free(r2)) /\ reportParse(r, input.h, input.raw)
    \/ reportCreate(r)
    \/ \E outcome \in SendOutcomes : reportNotify(r, outcome)
    \/ reportRespond(r)

SpecMerge == InitMerge /\ [][NextMerge]_vars

----------------------------------------------------------------------------
(* The create handlers and GET /email-status together: Spec *)

\* one body the schema accepts and one it rejects, per collection
SomeStudentBodies ==
  {b \in StudentBodies : b.email = <<"a@x.io">> /\ b.enrolments # <<>>}

SomeReportInputs ==
  { [body |-> b, headers |-> [n \in HeaderNames |-> Undefined], id |-> <<"run1">>] :
      b \in {NewFormatBody, [NewFormatBody EXCEPT !["studentId"] = U]} }

Init ==
  /\ InitDb
  /\ env \in {e \in Envs : e.emailPass = e.emailHost /\ e.studentAlertTo = e.issueAlertTo}

\* no create request is in flight
Quiet == \A r \in Requests : Free(r)

\* Spec serves one create request at a time (two creates that interleave are the
\* subject of SpecStudents) and a status request at any moment
Next ==
  \E r \in Requests :
    \/ Quiet /\ \E h \in StudentHandlers, b \in SomeStudentBodies : studentParse(r, h, b)
    \/ studentExists(r)
    \/ studentCreate(r)
    \/ \E outcome \in SendOutcomes : studentNotify(r, outcome)
    \/ studentRespond(r)
    \/ Quiet /\ \E h \in IssueHandlers, b \in IssueBodies : issueParse(r, h, b)
    \/ issueCreate(r)
    \/ \E outcome \in SendOutcomes : issueNotify(r, outcome)
    \/ issueRespond(r)
    \/ Quiet /\ \E h \in ReportHandlers, raw \in SomeReportInputs : reportParse(r, h, raw)
    \/ reportCreate(r)
    \/ \E outcome \in SendOutcomes : reportNotify(r, outcome)
    \/ reportRespond(r)
    \/ emailStatus(r)

Spec == Init /\ [][Next]_vars

----------------------------------------------------------------------------
(* Reading summary reports: getSummaryReport and getGuardianReports *)

CreateHandlers == StudentHandlers \cup IssueHandlers \cup ReportHandlers

\* _id of the student or report stored at position i of its collection
StudentId(i) == <<ObjectIdChunk(i)>>

ReportId(i) == <<ReportIdChunk(i)>>

\* SummaryReport.findById(id): the positions of the reports with that _id
findById(id) == {i \in DOMAIN reports : ReportId(i) = id}

\* getSummaryReport once findById has answered: an id that is no ObjectId makes the
\* query throw, which next(err) hands to the error handler
getSummaryReport(q) ==
  LET found == findById(q.raw.id) IN
  IF ~IsObjectId(q.raw.id) THEN errorHandler(q, FALSE)
  ELSE IF found = {}
    THEN [q EXCEPT !.pc = "done", !.status = 404, !.code = "REPORT_NOT_FOUND"]
  ELSE LET doc == reports[CHOOSE i \in found : TRUE] IN
       IF ~Falsy(q.raw.studentId) /\ doc.studentId # q.raw.studentId
         THEN [q EXCEPT !.pc = "done", !.status = 403, !.code = "FORBIDDEN"]
         ELSE [q EXCEPT !.pc = "done", !.status = 200, !.body = doc]

\* GET /summary-reports/:id arrives: the route parameter is never empty, so
\* idSchema accepts it, and the handler awaits findById
summaryReportParse(r, id, studentId) ==
  /\ Accepts(r)
  /\ Step(r, [Receive("getSummaryReport", [id |-> id, studentId |-> studentId])
                EXCEPT !.pc = "findById"])
  /\ UNCHANGED <<students, issues, reports, env, transporter, configured, input>>

summaryReportFound(r) ==
  /\ reqs[r].pc = "findById"
  /\ Step(r, getSummaryReport(reqs[r]))
  /\ UNCHANGED <<students, issues, reports, env, transporter, configured, input>>

\* a query on the students' own e-mail instead of the guardian's
findStudentsByOwnEmail(email) ==
  LET hit(i) == students[i].email = email
      F[i \in 0..Len(students)] ==
        IF i = 0 THEN <<>>
        ELSE IF hit(i) THEN Append(F[i - 1], StudentId(i)) ELSE F[i - 1]
  IN F[Len(students)]

\* Student.find({'guardian.email': email}): the _ids, in collection order
findStudents(email) ==
  LET hit(i) == students[i].guardian = email
      F[i \in 0..Len(students)] ==
        IF i = 0 THEN <<>>
        ELSE IF hit(i) THEN Append(F[i - 1], StudentId(i)) ELSE F[i - 1]
  IN F[Len(students)]

Range(s) == {s[i] : i \in DOMAIN s}

\* sort({createdAt: -1}) of a set of reports
sortNewestFirst(docs) ==
  CHOOSE t \in [1..Cardinality(docs) -> docs] :
    /\ Range(t) = docs
    /\ \A i, j \in DOMAIN t : i < j => t[i].createdAt >= t[j].createdAt

\* a query that forgets the studentId filter
findReportsOfAnyone(studentIds) ==
  sortNewestFirst(Range(reports))

\* SummaryReport.find({studentId: {$in: studentIds}}).sort({createdAt: -1})
findReports(studentIds) ==
  sortNewestFirst({reports[i] : i \in {j \in DOMAIN reports : reports[j].studentId \in Range(studentIds)}})

\* GET /summary-reports/guardian/reports arrives: the header check and the
\* normalisation of the e-mail, up to the first await
guardianParse(r, guardianEmail) ==
  /\ Accepts(r)
  /\ LET q == Receive("getGuardianReports", [guardianEmail |-> guardianEmail]) IN
       Step(r, IF Falsy(guardianEmail)
                 THEN [q EXCEPT !.pc = "done", !.status = 401, !.code = "UNAUTHORIZED"]
                 ELSE [q EXCEPT !.pc = "findStudents",
                                !.body = [guardian |-> trim(toLowerCase(guardianEmail)),
                                          students |-> <<>>, reports |-> <<>>, count |-> 0]])
  /\ UNCHANGED <<students, issues, reports, env, transporter, configured, input>>

\* Student.find has answered
guardianStudents(r) ==
  /\ reqs[r].pc = "findStudents"
  /\ LET found == findStudents(reqs[r].body.guardian) IN
       Step(r, IF found = <<>>
                 THEN [reqs[r] EXCEPT !.pc = "done", !.status = 404,
                                      !.code = "NO_STUDENTS_FOUND"]
                 ELSE [reqs[r] EXCEPT !.pc = "findReports", !.body.students = found])
  /\ UNCHANGED <<students, issues, reports, env, transporter, configured, input>>

\* SummaryReport.find has answered
guardianReports(r) ==
  /\ reqs[r].pc = "findReports"
  /\ LET found == findReports(reqs[r].body.students) IN
       Step(r, [reqs[r] EXCEPT !.pc = "done", !.status = 200,
                               !.body.reports = found, !.body.count = Len(found)])
  /\ UNCHANGED <<students, issues, reports, env, transporter, configured, input>>

----------------------------------------------------------------------------
(* The read handlers beside the creates that fill the collections: SpecRead *)

ReadStudentBodies ==
  { [email |-> e, guardian |-> g, enrolments |-> <<Enrolment(<<"maths">>)>>] :
      e \in {<<"a@x.io">>, <<"b@x.io">>}, g \in {<<"g@x.io">>, <<"h@x.io">>} }

ReadReportInputs ==
  { [body |-> NewFormatBody,
     headers |-> [n \in HeaderNames |-> IF n = "studentid" THEN id ELSE Undefined],
     id |-> Undefined] : id \in {StudentId(1), StudentId(2)} }

GuardianHeaders == {Undefined, <<>>, <<"G@x.io">>, <<"h@x.io">>}

ReportIdParams == {ReportId(1), <<"abc">>}

StudentIdQueries == {Undefined, StudentId(1), StudentId(2)}

InitRead ==
  /\ InitDb
  /\ env \in {e \in Envs : ~e.emailHost /\ ~e.emailPass /\ ~e.studentAlertTo /\ ~e.issueAlertTo}

\* no create request is in flight
NoCreate == \A r \in Requests : Free(r) \/ reqs[r].handler \notin CreateHandlers

\* no read request is in flight
NoRead == \A r \in Requests : Free(r) \/ reqs[r].handler \in CreateHandlers

\* SpecRead serves one create and one read at a time, interleaved in every way
NextRead ==
  \E r \in Requests :
    \/ NoCreate /\ \E b \in ReadStudentBodies : studentParse(r, "createStudent", b)
    \/ studentExists(r)
    \/ studentCreate(r)
    \/ \E outcome \in SendOutcomes : studentNotify(r, outcome)
    \/ studentRespond(r)
    \/ NoCreate /\ \E raw \in ReadReportInputs : reportParse(r, "createSummaryReport", raw)
    \/ reportCreate(r)
    \/ \E outcome \in SendOutcomes : reportNotify(r, outcome)
    \/ reportRespond(r)
    \/ NoRead /\ \E id \in ReportIdParams, studentId \in StudentIdQueries :
                   summaryReportParse(r, id, studentId)
    \/ summaryReportFound(r)
    \/ NoRead /\ \E guardianEmail \in GuardianHeaders : guardianParse(r, guardianEmail)
    \/ guardianStudents(r)
    \/ guardianReports(r)

SpecRead == InitRead /\ [][NextRead]_vars

----------------------------------------------------------------------------
(* Listing summary reports: listSummaryReports, under SpecList *)

\* .limit(200)
ListLimit == 200

\* the largest collection SpecList draws
MaxListed == 202

Min(a, b) == IF a < b THEN a ELSE b

\* sort({createdAt: -1}) of a sequence of documents: a document's place is one
\* more than the number of documents that go before it (the newer ones, and of
\* equally new ones those met earlier)
sortByCreatedAtDesc(s) ==
  LET place == [i \in DOMAIN s |->
                 1 + Cardinality({j \in DOMAIN s :
                        \/ s[j].createdAt > s[i].createdAt
                        \/ s[j].createdAt = s[i].createdAt /\ j < i})]
  IN [k \in DOMAIN s |-> s[CHOOSE i \in DOMAIN s : place[i] = k]]

\* the filter of the query: studentId only when the parameter is set
MatchesFilter(doc, studentId) == Falsy(studentId) \/ doc.studentId = studentId

\* a query that cuts the collection to the limit before it sorts
findListLimitFirst(studentId) ==
  LET Hit(doc) == MatchesFilter(doc, studentId)
      hits == SelectSeq(reports, Hit)
  IN sortByCreatedAtDesc(SubSeq(hits, 1, Min(ListLimit, Len(hits))))

\* SummaryReport.find(filter).sort({createdAt: -1}).limit(200)
findList(studentId) ==
  LET Hit(doc) == MatchesFilter(doc, studentId)
      sorted == sortByCreatedAtDesc(SelectSeq(reports, Hit))
  IN SubSeq(sorted, 1, Min(ListLimit, Len(sorted)))

\* GET /summary-reports arrives: the filter is built, the handler awaits find
listParse(r, studentId) ==
  /\ Accepts(r)
  /\ Step(r, [Receive("listSummaryReports", [studentId |-> studentId]) EXCEPT !.pc = "find"])
  /\ UNCHANGED <<students, issues, reports, env, transporter, configured, input>>

\* find has answered; a studentId that is no ObjectId makes the query throw
listFound(r) ==
  /\ reqs[r].pc = "find"
  /\ Step(r, IF ~Falsy(reqs[r].raw.studentId) /\ ~IsObjectId(reqs[r].raw.studentId)
               THEN errorHandler(reqs[r], FALSE)
               ELSE [reqs[r] EXCEPT !.pc = "done", !.status = 200,
                                    !.body = findList(reqs[r].raw.studentId)])
  /\ UNCHANGED <<students, issues, reports, env, transporter, configured, input>>

\* the report stored as the i-th, of student studentId
StoredReport(i, studentId) ==
  [ studentId |-> studentId,
    title |-> <<"recap">>,
    identity |-> [name |-> <<"ann">>, email |-> <<"a@x.io">>],
    context |-> [k \in ContextKeys |-> IF k = "source" THEN <<"manual">> ELSE <<>>],
    createdAt |-> i ]

\* collections of n reports in which every k-th report is of student 1, the rest of student 2
ListedCollections ==
  { [i \in 1..n |-> StoredReport(i, IF i % k = 0 THEN StudentId(1) ELSE StudentId(2))] :
      n \in (0..3) \cup ((ListLimit - 1)..MaxListed), k \in {1, 2, 3} }

ListQueries == {Undefined, <<>>, StudentId(1), StudentId(2), StudentId(3), <<"abc">>}

InitList ==
  /\ students = <<>>
  /\ issues = <<>>
  /\ reports \in ListedCollections
  /\ transporter = FALSE
  /\ configured = FALSE
  /\ reqs = [r \in Requests |-> Idle]
  /\ input = <<>>
  /\ env \in {e \in Envs : ~e.emailHost /\ ~e.emailPass /\ ~e.studentAlertTo /\ ~e.issueAlertTo}

\* SpecList serves one list request at a time
NextList ==
  \E r \in Requests :
    \/ (\A r2 \in Requests : Free(r2)) /\ \E studentId \in ListQueries : listParse(r, studentId)
    \/ listFound(r)

SpecList == InitList /\ [][NextList]_vars

----------------------------------------------------------------------------
(* Enrolments of a stored student: addStudentEnrolment and updateStudentEnrolment *)

MaxEnrolments == 2

\* buildEnrolmentKey: the four fields, trimmed and lower-cased, joined by '|'
buildEnrolmentKey(e) ==
  toLowerCase(trim(e.subject)) \o <<"|">> \o toLowerCase(trim(e.country)) \o <<"|">>
    \o toLowerCase(trim(e.examBody)) \o <<"|">> \o toLowerCase(trim(e.level))

existingKeys(enrolments) == {buildEnrolmentKey(enrolments[j]) : j \in DOMAIN enrolments}

\* Student.findById(id): the positions of the students with that _id
findStudentById(id) == {i \in DOMAIN students : StudentId(i) = id}

\* POST /students/:id/enrolments arrives: enrolmentIdSchema (a non-empty id), the
\* body's schema and normalizeEnrolment
enrolAddParse(r, id, e) ==
  /\ Accepts(r)
  /\ \A i \in DOMAIN students : Len(students[i].enrolments) < MaxEnrolments
  /\ LET q == Receive("addStudentEnrolment", [id |-> id, enrolment |-> e]) IN
       Step(r, IF id # <<>> /\ enrolmentSchema(e)
                 THEN [q EXCEPT !.pc = "find",
                                !.body = [id |-> id, enrolment |-> normalizeEnrolment(e)]]
                 ELSE errorHandler(q, TRUE))
  /\ UNCHANGED <<students, issues, reports, env, transporter, configured, input>>

\* addStudentEnrolment once findById has answered; an id that is no ObjectId makes
\* the query throw, which the catch block hands to the error handler
enrolAddFound(r) ==
  /\ reqs[r].pc = "find"
  /\ reqs[r].handler = "addStudentEnrolment"
  /\ LET q == reqs[r]
         hits == findStudentById(q.body.id) IN
       Step(r, IF ~IsObjectId(q.body.id) THEN errorHandler(q, FALSE)
               ELSE IF hits = {}
                 THEN [q EXCEPT !.pc = "done", !.status = 404, !.code = "STUDENT_NOT_FOUND"]
               ELSE IF buildEnrolmentKey(q.body.enrolment)
                         \in existingKeys(students[CHOOSE i \in hits : TRUE].enrolments)
                 THEN [q EXCEPT !.pc = "done", !.status = 409, !.code = "ENROLMENT_ALREADY_EXISTS"]
               ELSE [q EXCEPT !.pc = "push"])
  /\ UNCHANGED <<students, issues, reports, env, transporter, configured, input>>

\* Student.findByIdAndUpdate(id, { $push: { enrolments: normalized } })
enrolAddPush(r) ==
  /\ reqs[r].pc = "push"
  /\ LET q == reqs[r]
         hits == findStudentById(q.body.id) IN
       IF hits = {}
         THEN /\ Step(r, [q EXCEPT !.pc = "done", !.status = 404, !.code = "STUDENT_NOT_FOUND"])
              /\ UNCHANGED students
         ELSE LET i == CHOOSE i \in hits : TRUE IN
              /\ students' = [students EXCEPT ![i].enrolments = Append(@, q.body.enrolment)]
              /\ Step(r, [q EXCEPT !.pc = "notify", !.docId = i])
  /\ UNCHANGED <<issues, reports, env, transporter, configured, input>>

\* notifyEnrolmentAdded
enrolAddNotify(r, outcome) ==
  /\ reqs[r].pc = "notify"
  /\ reqs[r].handler = "addStudentEnrolment"
  /\ LET m == maybeSend(env.studentAlertTo, outcome) IN
       /\ transporter' = m.transporter
       /\ configured' = m.configured
       /\ Step(r, Notified(reqs[r], m))
  /\ UNCHANGED <<students, issues, reports, env, input>>

enrolAddRespond(r) ==
  /\ reqs[r].pc = "respond"
  /\ reqs[r].handler = "addStudentEnrolment"
  /\ Step(r, Respond(reqs[r], 200, ""))
  /\ UNCHANGED <<students, issues, reports, env, transporter, configured, input>>

\* Number.parseInt(indexRaw, 10) of a parameter given as chunks of characters: the
\* number its longest numeric prefix denotes, as <<n>>, and <<>> for NaN
parseInt(s) ==
  IF s = <<>> THEN <<>>
  ELSE CASE s[1] = "0" -> <<0>>
         [] s[1] = "1" -> <<1>>
         [] s[1] = "2" -> <<2>>
         [] s[1] = "-1" -> <<-1>>
         [] OTHER -> <<>>

\* the keys of every enrolment, the updated slot included
otherKeysWithSlot(enrolments, index) == existingKeys(enrolments)

\* otherKeys: the keys of the enrolments at the positions other than index (0-based)
otherKeys(enrolments, index) ==
  {buildEnrolmentKey(enrolments[j]) : j \in DOMAIN enrolments \ {index + 1}}

\* PUT /students/:id/enrolments/:index arrives: the index check comes before the body's
enrolUpdateParse(r, id, indexRaw, e) ==
  /\ Accepts(r)
  /\ LET q == Receive("updateStudentEnrolment", [id |-> id, index |-> indexRaw, enrolment |-> e]) IN
       Step(r, IF id = <<>> THEN errorHandler(q, TRUE)
               ELSE IF parseInt(indexRaw) = <<>> \/ parseInt(indexRaw)[1] < 0
                 THEN [q EXCEPT !.pc = "done", !.status = 400, !.code = "INVALID_ENROLMENT_INDEX"]
               ELSE IF ~enrolmentSchema(e) THEN errorHandler(q, TRUE)
               ELSE [q EXCEPT !.pc = "find",
                              !.body = [id |-> id, index |-> parseInt(indexRaw)[1],
                                        enrolment |-> e, enrolments |-> <<>>,
                                        updatedEnrolments |-> <<>>]])
  /\ UNCHANGED <<students, issues, reports, env, transporter, configured, input>>

\* updateStudentEnrolment once findById has answered: the checks on the student read;
\* the handler keeps the array it read and the array to write, built from it
enrolUpdateFound(r) ==
  /\ reqs[r].pc = "find"
  /\ reqs[r].handler = "updateStudentEnrolment"
  /\ LET q == reqs[r]
         hits == findStudentById(q.body.id)
         enrolments == students[CHOOSE i \in hits : TRUE].enrolments
         normalized == normalizeEnrolment(q.body.enrolment) IN
       Step(r, IF ~IsObjectId(q.body.id) THEN errorHandler(q, FALSE)
               ELSE IF hits = {}
                 THEN [q EXCEPT !.pc = "done", !.status = 404, !.code = "STUDENT_NOT_FOUND"]
               ELSE IF q.body.index >= Len(enrolments)
                 THEN [q EXCEPT !.pc = "done", !.status = 404, !.code = "ENROLMENT_NOT_FOUND"]
               ELSE IF buildEnrolmentKey(normalized) \in otherKeys(enrolments, q.body.index)
                 THEN [q EXCEPT !.pc = "done", !.status = 409, !.code = "ENROLMENT_ALREADY_EXISTS"]
               ELSE [q EXCEPT !.pc = "write", !.body.enrolments = enrolments,
                              !.body.updatedEnrolments =
                                 [enrolments EXCEPT ![q.body.index + 1] = normalized]])
  /\ UNCHANGED <<students, issues, reports, env, transporter, configured, input>>

\* Student.findByIdAndUpdate(id, { enrolments: updatedEnrolments }) and the answer
enrolUpdateWrite(r) ==
  /\ reqs[r].pc = "write"
  /\ LET q == reqs[r]
         hits == findStudentById(q.body.id) IN
       IF hits = {}
         THEN /\ Step(r, [q EXCEPT !.pc = "done", !.status = 404, !.code = "STUDENT_NOT_FOUND"])
              /\ UNCHANGED students
         ELSE LET i == CHOOSE i \in hits : TRUE IN
              /\ students' = [students EXCEPT ![i].enrolments = q.body.updatedEnrolments]
              /\ Step(r, Respond([q EXCEPT !.docId = i], 200, ""))
  /\ UNCHANGED <<issues, reports, env, transporter, configured, input>>

\* create bodies: one enrolment, or the same subject twice in different case
EnrolStudentBodies ==
  { [email |-> <<"a@x.io">>, guardian |-> <<"g@x.io">>, enrolments |-> <<Enrolment(<<"maths">>)>>],
    [email |-> <<"a@x.io">>, guardian |-> <<"g@x.io">>,
     enrolments |-> <<Enrolment(<<"maths">>), Enrolment(<<"Maths">>)>>] }

\* the id and body of the add requests
EnrolAddInputs ==
  { <<StudentId(1), Enrolment(<<"maths">>)>>, <<StudentId(1), Enrolment(<<"Maths", " ">>)>>,
    <<StudentId(1), Enrolment(<<"physics">>)>>, <<StudentId(1), Enrolment(<<>>)>>,
    <<StudentId(2), Enrolment(<<"maths">>)>>, <<<<"abc">>, Enrolment(<<"maths">>)>> }

\* the id, index and body of the update requests
EnrolUpdateInputs ==
  { <<StudentId(1), <<"0">>, Enrolment(<<"Maths", " ">>)>>,
    <<StudentId(1), <<"0">>, Enrolment(<<"physics">>)>>,
    <<StudentId(1), <<"1">>, Enrolment(<<"Maths", " ">>)>>,
    <<StudentId(1), <<"2">>, Enrolment(<<"maths">>)>>,
    <<StudentId(1), <<"0">>, Enrolment(<<>>)>>,
    <<StudentId(1), <<"-1">>, Enrolment(<<>>)>>,
    <<StudentId(1), <<"abc">>, Enrolment(<<"maths">>)>>,
    <<StudentId(1), <<"1", "abc">>, Enrolment(<<"physics">>)>>,
    <<StudentId(2), <<"0">>, Enrolment(<<"maths">>)>>,
    <<<<"abc">>, <<"0">>, Enrolment(<<"maths">>)>> }

InitEnrol ==
  /\ InitDb
  /\ env \in {e \in Envs : e.emailHost /\ e.emailPass /\ ~e.studentAlertTo /\ ~e.issueAlertTo}

\* no create is being served, and at most one other enrolment request
EnrolOnly(r) ==
  /\ \A r2 \in Requests :
       Free(r2) \/ reqs[r2].handler \in {"addStudentEnrolment", "updateStudentEnrolment"}
  /\ \E r2 \in Requests : \A r3 \in Requests \ {r, r2} : Free(r3)

\* one create at a time, served alone; two enrolment requests may interleave; no
\* recipient of student alerts is configured, so every notification is skipped
NextEnrol ==
  \E r \in Requests :
    \/ /\ \A r2 \in Requests : Free(r2)
       /\ \E h \in StudentHandlers, b \in EnrolStudentBodies : studentParse(r, h, b)
    \/ studentExists(r)
    \/ studentCreate(r)
    \/ \E outcome \in SendOutcomes : studentNotify(r, outcome)
    \/ studentRespond(r)
    \/ /\ EnrolOnly(r)
       /\ \E in \in EnrolAddInputs : enrolAddParse(r, in[1], in[2])
    \/ enrolAddFound(r)
    \/ enrolAddPush(r)
    \/ \E outcome \in SendOutcomes : enrolAddNotify(r, outcome)
    \/ enrolAddRespond(r)
    \/ /\ EnrolOnly(r)
       /\ \E in \in EnrolUpdateInputs : enrolUpdateParse(r, in[1], in[2], in[3])
    \/ enrolUpdateFound(r)
    \/ enrolUpdateWrite(r)

SpecEnrol == InitEnrol /\ [][NextEnrol]_vars

----------------------------------------------------------------------------
(* Verifying a guardian e-mail: verifyGuardianEmail, under SpecVerify *)

\* req.body.email of POST /api/guardians/verify-email
VerifyEmails ==
  {Undefined, <<>>, <<"G@x.io", " ">>, <<"g@x.io">>, <<" ", "h@x.io">>, <<"b@x.io">>}

\* the request arrives: the check of the e-mail and its normalisation, up to the await
verifyParse(r, email) ==
  /\ Accepts(r)
  /\ LET q == Receive("verifyGuardianEmail", [email |-> email]) IN
       Step(r, IF Falsy(email)
                 THEN [q EXCEPT !.pc = "done", !.status = 400]
                 ELSE [q EXCEPT !.pc = "find",
                                !.body = [guardianEmail |-> trim(toLowerCase(email)),
                                          studentCount |-> 0]])
  /\ UNCHANGED <<students, issues, reports, env, transporter, configured, input>>

\* Student.find has answered
verifyFound(r) ==
  /\ reqs[r].pc = "find"
  /\ reqs[r].handler = "verifyGuardianEmail"
  /\ LET found == findStudents(reqs[r].body.guardianEmail) IN
       Step(r, IF Len(found) = 0
                 THEN [reqs[r] EXCEPT !.pc = "done", !.status = 404]
                 ELSE [reqs[r] EXCEPT !.pc = "done", !.status = 200,
                                      !.body.studentCount = Len(found)])
  /\ UNCHANGED <<students, issues, reports, env, transporter, configured, input>>

\* SpecVerify serves one create and one verification at a time, interleaved in every way
NextVerify ==
  \E r \in Requests :
    \/ NoCreate /\ \E h \in StudentHandlers, b \in ReadStudentBodies : studentParse(r, h, b)
    \/ studentExists(r)
    \/ studentCreate(r)
    \/ \E outcome \in SendOutcomes : studentNotify(r, outcome)
    \/ studentRespond(r)
    \/ NoRead /\ \E email \in VerifyEmails : verifyParse(r, email)
    \/ verifyFound(r)

SpecVerify == InitRead /\ [][NextVerify]_vars

----------------------------------------------------------------------------
(* The HTML of the notification e-mails, under SpecHtml: a submitted value is a
   sequence of characters, the HTML a sequence of chunks, each chunk a piece of
   the template's own markup, an entity or a character of the value *)

MaxValueLen == 3

\* escapeHtml: the five replacements, in the order of the code
escapeHtml(value) ==
  LET replace(s, from, to) == [i \in DOMAIN s |-> IF s[i] = from THEN to ELSE s[i]]
  IN replace(replace(replace(replace(replace(value,
       "&", "&amp;"), "<", "&lt;"), ">", "&gt;"), "\"", "&quot;"), "'", "&#39;")

InitHtml ==
  /\ students = <<>>
  /\ issues = <<>>
  /\ reports = <<>>
  /\ transporter = FALSE
  /\ configured = FALSE
  /\ reqs = [r \in Requests |-> Idle]
  /\ env \in {e \in Envs : e.emailHost /\ e.emailPass /\ e.studentAlertTo /\ e.issueAlertTo}
  /\ input \in {[email |-> "none", value |-> v, html |-> <<>>] :
                  v \in UNION {[1..n -> {"a", "&", "<", ">", "\"", "'", "\n"}] : n \in 1..MaxValueLen}}

\* buildStudentSubmissionEmail, for a student whose name is the value
buildStudentSubmissionEmail ==
  /\ input.email = "none"
  /\ input' = [input EXCEPT !.email = "studentSubmission",
                 !.html = <<"<p><strong>Name:</strong> ">> \o escapeHtml(input.value) \o <<"</p>">>]
  /\ UNCHANGED <<students, issues, reports, env, transporter, configured, reqs>>

\* the html of notifyEnrolmentAdded, for an enrolment whose subject is the value
buildEnrolmentAddedEmail ==
  /\ input.email = "none"
  /\ input' = [input EXCEPT !.email = "enrolmentAdded",
                 !.html = <<"<p><strong>Subject:</strong> ">> \o escapeHtml(input.value) \o <<"</p>">>]
  /\ UNCHANGED <<students, issues, reports, env, transporter, configured, reqs>>

\* the html of maybeSendReportEmail, for a report whose compactRecap is the value:
\* formatField escapes the string and turns its line breaks into <br />
buildReportEmail ==
  /\ input.email = "none"
  /\ input' = [input EXCEPT !.email = "summaryReport",
                 !.html = <<"<p><strong>Compact Recap:</strong><br />">>
                            \o [i \in DOMAIN input.value |->
                                  IF escapeHtml(input.value)[i] = "\n" THEN "<br />"
                                  ELSE escapeHtml(input.value)[i]]
                            \o <<"</p>">>]
  /\ UNCHANGED <<students, issues, reports, env, transporter, configured, reqs>>

\* the html of maybeSendIssueEmail, for a manual issue whose description is the
\* value: the lines are joined as paragraphs, line breaks turned into <br />
buildIssueEmail ==
  /\ input.email = "none"
  /\ input' = [input EXCEPT !.email = "issueAlert",
                 !.html = <<"<p>", "Source: manual", "</p><p>", "Description: ">>
                            \o [i \in DOMAIN input.value |->
                                  IF input.value[i] = "\n" THEN "<br />" ELSE input.value[i]]
                            \o <<"</p>">>]
  /\ UNCHANGED <<students, issues, reports, env, transporter, configured, reqs>>

NextHtml ==
  \/ buildStudentSubmissionEmail
  \/ buildEnrolmentAddedEmail
  \/ buildReportEmail
  \/ buildIssueEmail

SpecHtml == InitHtml /\ [][NextHtml]_vars

----------------------------------------------------------------------------
(* Claims about the student create handlers, under SpecStudents *)

NormalizedEmail(s) == toLowerCase(trim(s))

\* C1: no two stored students have the same normalized (trimmed, lower-cased)
\* e-mail, whatever the interleaving of the create requests.
C1_UniqueStudentEmails ==
  \A i, j \in DOMAIN students :
    i # j => NormalizedEmail(students[i].email) # NormalizedEmail(students[j].email)

\* two concurrent requests with the same e-mail both passed the existence check;
\* one was persisted and the other was rejected by the unique index
C1_Witness ==
  \E r1, r2 \in Requests :
    /\ r1 # r2
    /\ reqs[r1].docId # 0
    /\ reqs[r2].via = "index"
    /\ reqs[r1].body.email = reqs[r2].body.email

EmailStored(email) == \E i \in DOMAIN students : students[i].email = email

\* C2: when the existence check or the insert of a create request finds its
\* normalized e-mail on a stored student, the request is answered 409
\* STUDENT_EMAIL_EXISTS, the stored students are unchanged and no notification
\* e-mail is attempted.
C2_DuplicateAnswered409 ==
  [][\A r \in Requests :
       ( /\ reqs[r].pc \in {"exists", "create"}
         /\ reqs'[r] # reqs[r]
         /\ EmailStored(reqs[r].body.email) )
       => /\ reqs'[r].pc = "done"
          /\ reqs'[r].status = 409
          /\ reqs'[r].code = "STUDENT_EMAIL_EXISTS"
          /\ reqs'[r].mail = "none"
          /\ students' = students
          /\ transporter' = transporter /\ configured' = configured]_vars

\* a duplicate found by the database's duplicate-key error has been answered
C2_Witness ==
  \E r \in Requests :
    /\ reqs[r].via = "index"
    /\ reqs[r].pc = "done"
    /\ reqs[r].status = 409
    /\ \E i \in DOMAIN students : students[i].email = reqs[r].body.email

----------------------------------------------------------------------------
(* Claims about transformLegacyFormat, under SpecLegacy *)

\* the sequence of the trimmed non-empty lines of s, in their original order
LinesOf(s) ==
  LET parts == split(s)
      trimmed == [i \in DOMAIN parts |-> trim(parts[i])]
  IN SelectSeq(trimmed, NonEmpty)

\* what the claim says the result is for a body without an object-valued identity
C7_Expected(d) ==
  LET present == Truthy(d["name"]) \/ Truthy(d["email"])
      moved == {k \in ContextKeys : Truthy(d[k])}
  IN [k \in DOMAIN d |->
        IF k = "identity"
          THEN IF present
                 THEN O([name |-> IF Truthy(d["name"]) THEN d["name"] ELSE S(<<>>),
                         email |-> IF Truthy(d["email"]) THEN d["email"] ELSE S(<<>>)])
                 ELSE d[k]
        ELSE IF k \in {"name", "email"} THEN IF present THEN U ELSE d[k]
        ELSE IF k = "context"
          THEN IF moved # {}
                 THEN O([c \in ContextKeys |->
                           IF c \in moved THEN d[c] ELSE Spread(d["context"], ContextKeys)[c]])
                 ELSE d[k]
        ELSE IF k \in ContextKeys \cup {"date"} THEN U
        ELSE IF k \in ArrayFieldSet /\ d[k].t = "s"
          THEN LET ls == LinesOf(d[k].v) IN A([i \in DOMAIN ls |-> S(ls[i])])
        ELSE IF k = "sources" /\ d[k].t = "s"
          THEN LET ls == LinesOf(d[k].v) IN
               A([i \in DOMAIN ls |-> O([type |-> S(<<"reference">>), ref |-> S(ls[i])])])
        ELSE d[k]]

\* C7: for a body without an object-valued identity transformLegacyFormat returns
\* the copy the claim describes: identity built from name and email, the context
\* keys moved into context, date removed, every string-valued list field and a
\* string-valued sources replaced by their trimmed non-empty lines, the rest unchanged.
C7_LegacyTransform ==
  (input # <<>> /\ input.pc = "returned" /\ ~(Truthy(input.data["identity"]) /\ IsObject(input.data["identity"])))
    => input.out = C7_Expected(input.data)

\* the same, for bodies whose list fields and sources are not the empty string
C7_LegacyTransformNonEmpty ==
  ( /\ input # <<>>
    /\ input.pc = "returned"
    /\ ~(Truthy(input.data["identity"]) /\ IsObject(input.data["identity"]))
    /\ \A k \in ArrayFieldSet \cup {"sources"} : input.data[k] # S(<<>>) )
    => input.out = C7_Expected(input.data)

----------------------------------------------------------------------------
(* Claims about header merging, under SpecMerge *)

\* the string a body gives for a key of identity or context, Undefined when it gives none
BodyString(obj, k) ==
  IF obj.t = "o" /\ obj.v[k].t = "s" THEN obj.v[k].v ELSE Undefined

\* the header's value when the header supplies one, else the body's, else the schema default
Precedence(header, bodyValue) ==
  IF ~Falsy(header) THEN header
  ELSE IF bodyValue # Undefined THEN bodyValue
  ELSE <<>>

\* C8: in every stored report a value supplied by a header replaces the body's
\* value of the corresponding field, and the body's value is kept where no
\* header supplies one.
C8_HeadersTakePrecedence ==
  \A i \in DOMAIN reports :
    LET d == reports[i]
        hd == input.raw.headers
        b == transformLegacyFormat(input.raw.body)
    IN /\ d.identity.name = Precedence(hd["name"], BodyString(b["identity"], "name"))
       /\ d.identity.email = Precedence(hd["email"], BodyString(b["identity"], "email"))
       /\ d.studentId = Precedence(hd["studentid"], IF b["studentId"].t = "s" THEN b["studentId"].v ELSE Undefined)
       /\ d.context["chatId"] = Precedence(hd["x-flow-chat-id"], BodyString(b["context"], "chatId"))
       /\ d.context["sessionId"] = Precedence(hd["x-flow-session-id"], BodyString(b["context"], "sessionId"))
       /\ d.context["chatflowId"] = Precedence(hd["x-flow-chatflow-id"], BodyString(b["context"], "chatflowId"))

\* a stored report whose name and chat id come from headers that differ from the
\* body's values, and whose e-mail and session id are the body's
C8_Witness ==
  \E i \in DOMAIN reports :
    /\ input.raw.headers["name"] = <<"hana">>
    /\ input.raw.headers["x-flow-chat-id"] = <<"chat-h">>
    /\ input.raw.headers["email"] = Undefined
    /\ input.raw.headers["x-flow-session-id"] = Undefined
    /\ input.raw.body = NewFormatBody
    /\ reports[i].identity.name = <<"hana">>
    /\ reports[i].context["chatId"] = <<"chat-h">>
    /\ reports[i].identity.email = <<"a@x.io">>
    /\ reports[i].context["sessionId"] = <<"sess-b">>

----------------------------------------------------------------------------
(* Claims about the create handlers and GET /email-status, under Spec *)

\* the steps of log occur in the order of steps
InOrder(log, steps) ==
  \A i, j \in DOMAIN log :
    i < j => \E m, n \in DOMAIN steps : m < n /\ steps[m] = log[i] /\ steps[n] = log[j]

\* the document request q created is in its collection
Stored(q) ==
  /\ q.docId # 0
  /\ q.handler \in StudentHandlers =>
       q.docId \in DOMAIN students /\ students[q.docId].email = q.body.email
  /\ q.handler \in IssueHandlers =>
       q.docId \in DOMAIN issues /\ issues[q.docId].title = q.body.title
  /\ q.handler \in ReportHandlers =>
       q.docId \in DOMAIN reports /\ reports[q.docId].studentId = q.body.studentId

SuccessStatus(h) ==
  IF h \in {"createStudentFromFlowise", "createIssueFromFlowise"} THEN 202 ELSE 201

\* C3 as stated: every create handler runs validate, normalize, persist, notify,
\* respond in this order.
C3_ValidateThenNormalize ==
  \A r \in Requests :
    reqs[r].handler \in CreateHandlers =>
      InOrder(reqs[r].log, <<"validate", "normalize", "persist", "notify", "respond">>)

\* what the schemas guarantee of a stored document
StoredDocumentsValid ==
  /\ \A i \in DOMAIN students :
       /\ IsEmail(students[i].email)
       /\ students[i].email # students[i].guardian
       /\ students[i].enrolments # <<>>
  /\ \A i \in DOMAIN issues : issues[i].title \notin {<<>>, Undefined}
  /\ \A i \in DOMAIN reports :
       /\ reports[i].studentId \notin {<<>>, Undefined}
       /\ reports[i].identity.name \notin {<<>>, Undefined}
       /\ IsEmail(reports[i].identity.email)

\* C3, amended: a document is persisted only after validation passed, a
\* notification is attempted only after the document has been persisted, and the
\* success response is sent only after the notification attempt has finished;
\* the student and issue handlers validate and then normalize, the summary-report
\* handlers normalize and then validate.
C3_PersistNotifyRespondInOrder ==
  /\ StoredDocumentsValid
  /\ \A r \in Requests :
       LET q == reqs[r] IN
       q.handler \in CreateHandlers =>
         /\ InOrder(q.log, IF q.handler \in ReportHandlers
                             THEN <<"normalize", "validate", "persist", "notify", "respond">>
                             ELSE <<"validate", "normalize", "persist", "notify", "respond">>)
         /\ q.docId # 0 => Stored(q) /\ \E i \in DOMAIN q.log : q.log[i] = "validate"
         /\ q.mail # "none" => q.docId # 0
         /\ q.status \in {201, 202} => q.mail # "none" /\ q.pc = "done"

\* a summary report has been created, mailed and answered: its log runs
\* normalize, validate, persist, notify, respond
C3_Witness ==
  \E r \in Requests :
    /\ reqs[r].handler = "createSummaryReport"
    /\ reqs[r].status = 201
    /\ reqs[r].mail = "sent"
    /\ reqs[r].log = <<"normalize", "validate", "persist", "notify", "respond">>

\* C4: whatever becomes of the notification (no recipient or no e-mail
\* configuration, a failed send, an exception), the create request is answered
\* with its success status and the document it persisted stays stored.
C4_NotificationNeverAffectsOutcome ==
  \A r \in Requests :
    LET q == reqs[r] IN
    q.handler \in CreateHandlers /\ q.mail \in {"skipped", "failed", "threw"} =>
      /\ q.pc \in {"respond", "done"}
      /\ q.pc = "done" => q.status = SuccessStatus(q.handler) /\ q.code = ""
      /\ Stored(q)

\* a webhook issue whose notification failed has been answered 202
C4_Witness ==
  \E r \in Requests :
    /\ reqs[r].handler = "createIssueFromFlowise"
    /\ reqs[r].mail = "failed"
    /\ reqs[r].pc = "done"
    /\ reqs[r].status = 202
    /\ Stored(reqs[r])

\* the body of create request q, still held as received, fails the handler's schema
Rejected(q) ==
  /\ q.handler \in CreateHandlers
  /\ q.raw # <<>>
  /\ CASE q.handler \in StudentHandlers -> ~manualSchema(q.raw)
       [] q.handler = "createIssue" -> ~issueManualSchema(q.raw)
       [] q.handler = "createIssueFromFlowise" -> ~issueFlowiseSchema(q.raw)
       [] OTHER -> ~baseReportSchema(mergedRequest(q.handler, q.raw))

\* C5: the step that answers a create request whose body fails validation
\* answers 400 VALIDATION_ERROR, stores nothing and attempts no e-mail.
C5_ValidationFailureAnswered400 ==
  [][\A r \in Requests :
       reqs'[r].pc = "done" /\ Rejected(reqs'[r]) =>
         /\ reqs'[r].status = 400
         /\ reqs'[r].code = "VALIDATION_ERROR"
         /\ reqs'[r].docId = 0
         /\ reqs'[r].mail = "none"
         /\ UNCHANGED <<students, issues, reports, transporter, configured>>]_vars

\* a summary report without studentId has been answered 400
C5_Witness ==
  \E r \in Requests :
    /\ reqs[r].handler = "createSummaryReport"
    /\ Rejected(reqs[r])
    /\ reqs[r].status = 400

\* C6: under an unchanged configuration no step changes the body that
\* GET /email-status returns.
C6_EmailStatusUnchanged == [][getStatus' = getStatus]_vars

----------------------------------------------------------------------------
(* Claims about the read handlers, under SpecRead *)

\* the stored students whose guardian e-mail is email, by _id
LinkedStudents(email) ==
  {StudentId(i) : i \in {j \in DOMAIN students : students[j].guardian = email}}

\* the stored reports of the students ids
ReportsOf(ids) == {reports[i] : i \in {j \in DOMAIN reports : reports[j].studentId \in ids}}

GuardianAnswered(q) == q.handler = "getGuardianReports" /\ q.pc = "done"

\* C9 as stated: 401 without the header, 404 when no stored student has the
\* guardian e-mail, otherwise the reports returned are exactly the stored reports
\* of the students whose guardian e-mail is the trimmed, lower-cased header,
\* newest first, and count is their number.
C9_ExactlyTheLinkedReports ==
  \A r \in Requests :
    LET q == reqs[r]
        email == trim(toLowerCase(q.raw.guardianEmail))
    IN GuardianAnswered(q) =>
         IF Falsy(q.raw.guardianEmail) THEN q.status = 401 /\ q.code = "UNAUTHORIZED"
         ELSE IF LinkedStudents(email) = {} THEN q.status = 404 /\ q.code = "NO_STUDENTS_FOUND"
         ELSE /\ q.status = 200
              /\ Range(q.body.reports) = ReportsOf(LinkedStudents(email))
              /\ \A i, j \in DOMAIN q.body.reports :
                   i < j => q.body.reports[i].createdAt >= q.body.reports[j].createdAt
              /\ q.body.count = Len(q.body.reports)

\* C9, amended: 401 without the header; 404 when the student query finds no
\* student with the guardian e-mail; otherwise the student query finds exactly
\* the students stored at that moment whose guardian e-mail is the trimmed,
\* lower-cased header, and the reports returned are exactly the reports stored
\* when the report query runs whose studentId is one of those students,
\* newest first, each once, with count their number.  No report of a student
\* not linked to the guardian e-mail is returned.
C9_LinkedReportsAsQueried ==
  [][\A r \in Requests :
       LET q == reqs'[r]
           email == trim(toLowerCase(q.raw.guardianEmail))
       IN /\ GuardianAnswered(q) /\ Falsy(q.raw.guardianEmail) =>
               q.status = 401 /\ q.code = "UNAUTHORIZED"
          /\ GuardianAnswered(q) /\ ~Falsy(q.raw.guardianEmail) /\ reqs[r].pc = "findStudents" =>
               q.status = 404 /\ q.code = "NO_STUDENTS_FOUND" /\ LinkedStudents(email) = {}
          /\ q.handler = "getGuardianReports" /\ q.pc = "findReports"
               /\ reqs[r].pc = "findStudents" =>
               /\ Range(q.body.students) = LinkedStudents(email)
               /\ q.body.students # <<>>
          /\ GuardianAnswered(q) /\ reqs[r].pc = "findReports" =>
               /\ q.status = 200
               /\ Range(q.body.reports) = ReportsOf(Range(q.body.students))
               /\ Range(q.body.reports) \subseteq ReportsOf(LinkedStudents(email))
               /\ Len(q.body.reports) = Cardinality(Range(q.body.reports))
               /\ \A i, j \in DOMAIN q.body.reports :
                    i < j => q.body.reports[i].createdAt >= q.body.reports[j].createdAt
               /\ q.body.count = Len(q.body.reports)]_vars

\* a guardian has been answered two reports, the newer first, while a report of
\* another guardian's student is stored
C9_Witness ==
  \E r \in Requests :
    /\ GuardianAnswered(reqs[r])
    /\ reqs[r].status = 200
    /\ reqs[r].body.count = 2
    /\ reqs[r].body.reports[1].createdAt > reqs[r].body.reports[2].createdAt
    /\ \E i \in DOMAIN reports : reports[i] \notin Range(reqs[r].body.reports)

\* C10: getSummaryReport answers 404 REPORT_NOT_FOUND when no report has the
\* id, whatever studentId is given; when the report exists and a studentId is
\* given that differs from the report's, it answers 403 FORBIDDEN and does not
\* return the report.
C10_NotFoundBeforeForbidden ==
  \A r \in Requests :
    LET q == reqs[r] IN
    q.handler = "getSummaryReport" /\ q.pc = "done" =>
      IF findById(q.raw.id) = {}
        THEN q.status = 404 /\ q.code = "REPORT_NOT_FOUND"
        ELSE LET doc == reports[CHOOSE i \in findById(q.raw.id) : TRUE] IN
             ~Falsy(q.raw.studentId) /\ doc.studentId # q.raw.studentId =>
               q.status = 403 /\ q.code = "FORBIDDEN" /\ q.body # doc

\* the same for the ids that are ObjectIds
C10_NotFoundBeforeForbiddenObjectIds ==
  \A r \in Requests :
    LET q == reqs[r] IN
    q.handler = "getSummaryReport" /\ q.pc = "done" /\ IsObjectId(q.raw.id) =>
      IF findById(q.raw.id) = {}
        THEN q.status = 404 /\ q.code = "REPORT_NOT_FOUND"
        ELSE LET doc == reports[CHOOSE i \in findById(q.raw.id) : TRUE] IN
             ~Falsy(q.raw.studentId) /\ doc.studentId # q.raw.studentId =>
               q.status = 403 /\ q.code = "FORBIDDEN" /\ q.body # doc

----------------------------------------------------------------------------
(* Claims about listSummaryReports, under SpecList *)

\* the stored reports the list request q asks for
Matching(q) == {reports[i] : i \in {j \in DOMAIN reports : MatchesFilter(reports[j], q.raw.studentId)}}

\* C11: listSummaryReports returns at most 200 reports, newest first; they are
\* reports of the given studentId when one is given and of any student
\* otherwise; when more than 200 match they are the 200 newest of them.
C11_NewestTwoHundredListed ==
  \A r \in Requests :
    LET q == reqs[r] IN
    q.handler = "listSummaryReports" /\ q.pc = "done" /\ q.status = 200 =>
      /\ Len(q.body) = Min(ListLimit, Cardinality(Matching(q)))
      /\ Range(q.body) \subseteq Matching(q)
      /\ \A i \in 1..(Len(q.body) - 1) : q.body[i].createdAt > q.body[i + 1].createdAt
      /\ \A d \in Matching(q) \ Range(q.body) :
           \A i \in DOMAIN q.body : q.body[i].createdAt >= d.createdAt

\* 202 reports match an unfiltered list request, which is answered 200 of them
C11_Witness ==
  \E r \in Requests :
    /\ reqs[r].handler = "listSummaryReports"
    /\ reqs[r].status = 200
    /\ reqs[r].raw.studentId = Undefined
    /\ Len(reports) = 202
    /\ Len(reqs[r].body) = 200
    /\ reqs[r].body[1].createdAt = 202

----------------------------------------------------------------------------
(* Claims about the enrolments of a stored student *)

AddRequest(q) == q.handler = "addStudentEnrolment" /\ q.pc \in {"find", "push"}

\* the student of request q as stored now, and whether its list holds the new key
StudentOf(q) == students[CHOOSE i \in findStudentById(q.body.id) : TRUE]

KeyTaken(q) ==
  /\ findStudentById(q.body.id) # {}
  /\ buildEnrolmentKey(q.body.enrolment) \in existingKeys(StudentOf(q).enrolments)

Answered(q, status, code) == q.pc = "done" /\ q.status = status /\ q.code = code

\* the step of an add request whose body is valid, from the state the step reads
AddStep(r) ==
  LET q == reqs[r]
      q2 == reqs'[r] IN
  (AddRequest(q) /\ q2 # q) =>
    IF findStudentById(q.body.id) = {}
      THEN Answered(q2, 404, "STUDENT_NOT_FOUND") /\ students' = students
    ELSE IF KeyTaken(q)
      THEN Answered(q2, 409, "ENROLMENT_ALREADY_EXISTS") /\ students' = students
    ELSE IF q.pc = "find"
      THEN q2.pc = "push" /\ students' = students
    ELSE /\ q2.pc = "notify"
         /\ \E i \in DOMAIN students :
              students' = [students EXCEPT ![i].enrolments = Append(@, q.body.enrolment)]

\* C12: addStudentEnrolment answers 404 STUDENT_NOT_FOUND when the student does
\* not exist and 409 ENROLMENT_ALREADY_EXISTS when an enrolment with the same key
\* already exists, changing nothing in either case; otherwise the student's list
\* becomes its previous list followed by the normalized enrolment, nothing else of
\* any student changes, and the request is answered 200.
C12_AppendsOrRejects ==
  [][\A r \in Requests :
       /\ AddStep(r)
       /\ (reqs[r].handler = "addStudentEnrolment" /\ reqs[r].pc = "respond" /\ reqs'[r] # reqs[r])
            => Answered(reqs'[r], 200, "")]_vars

\* C12 for ids that are ObjectIds, each check made on the student as read: 404 and
\* 409 change nothing, the push appends the normalized enrolment to the list as
\* stored and changes nothing else, and only a request that pushed is answered 200.
C12_AppendsOrRejectsAsRead ==
  [][\A r \in Requests :
       LET q == reqs[r]
           q2 == reqs'[r] IN
       /\ (AddRequest(q) /\ q2 # q /\ IsObjectId(q.body.id) /\ q.pc = "find") =>
            /\ students' = students
            /\ IF findStudentById(q.body.id) = {} THEN Answered(q2, 404, "STUDENT_NOT_FOUND")
               ELSE IF KeyTaken(q) THEN Answered(q2, 409, "ENROLMENT_ALREADY_EXISTS")
               ELSE q2.pc = "push"
       /\ (AddRequest(q) /\ q2 # q /\ q.pc = "push") =>
            /\ q2.pc = "notify"
            /\ \E i \in DOMAIN students :
                 /\ StudentId(i) = q.body.id
                 /\ students' = [students EXCEPT ![i].enrolments = Append(@, q.body.enrolment)]
       /\ (q.handler = "addStudentEnrolment" /\ q2 # q /\ q2.pc = "done" /\ q2.status = 200)
            => q.pc = "respond" /\ q.docId # 0]_vars

\* the stored students whose guardian e-mail is the normalized request e-mail
WithGuardian(email) ==
  {i \in DOMAIN students : students[i].guardian = toLowerCase(trim(email))}

\* C13: verifyGuardianEmail answers 400 when the body has no email, 404 when no
\* stored student has a guardian email equal to the trimmed, lower-cased request
\* email, and otherwise 200 with studentCount the number of stored students
\* having that guardian email and guardianEmail the normalized email; no step of
\* the request changes stored data.
C13_GuardianEmailVerified ==
  [][\A r \in Requests :
       LET q == reqs'[r] IN
       (q.handler = "verifyGuardianEmail" /\ q # reqs[r]) =>
         /\ students' = students /\ issues' = issues /\ reports' = reports
         /\ q.pc = "done" =>
              IF Falsy(q.raw.email) THEN q.status = 400
              ELSE IF WithGuardian(q.raw.email) = {} THEN q.status = 404
              ELSE /\ q.status = 200
                   /\ q.body.studentCount = Cardinality(WithGuardian(q.raw.email))
                   /\ q.body.guardianEmail = toLowerCase(trim(q.raw.email))]_vars

\* a verification answered 200 for two students, asked with an e-mail in another
\* case and followed by a blank
C13_Witness ==
  \E r \in Requests :
    /\ reqs[r].handler = "verifyGuardianEmail"
    /\ reqs[r].pc = "done"
    /\ reqs[r].status = 200
    /\ reqs[r].raw.email = <<"G@x.io", " ">>
    /\ reqs[r].body.studentCount = 2

\* C14: no stored student ever has two enrolments with the same key (subject,
\* country, examBody and level compared trimmed and case-insensitively), after any
\* sequence or interleaving of create, add-enrolment and update-enrolment requests.
C14_NoDuplicateEnrolmentKeys ==
  \A i \in DOMAIN students :
    \A j, k \in DOMAIN students[i].enrolments :
      j # k => buildEnrolmentKey(students[i].enrolments[j])
                 # buildEnrolmentKey(students[i].enrolments[k])

UpdateWrites(q, q2) ==
  q.handler = "updateStudentEnrolment" /\ q.pc = "write" /\ q2.pc = "done" /\ q2.status = 200

\* C15: a successful updateStudentEnrolment changes only the enrolment at the given
\* index: every other enrolment the student has when the update writes, one
\* appended by a concurrent add request since the update's read included, is
\* present and unchanged afterwards.
C15_OnlyTheIndexedEnrolmentChanges ==
  [][\A r \in Requests :
       UpdateWrites(reqs[r], reqs'[r]) =>
         LET before == StudentOf(reqs[r]).enrolments
             after == students'[reqs'[r].docId].enrolments IN
         \A j \in DOMAIN before :
           j # reqs[r].body.index + 1 => j \in DOMAIN after /\ after[j] = before[j]]_vars

\* an :index parameter that is the decimal numeral of a non-negative integer
IsIndex(s) == Len(s) = 1 /\ s[1] \in {"0", "1", "2"}

UpdateRequest(q) == q.handler = "updateStudentEnrolment"

\* C16: updateStudentEnrolment rejects without changing stored data: an index that
\* is not a non-negative integer is answered 400 INVALID_ENROLMENT_INDEX, before
\* the body is validated and before the student is looked up; an unknown student
\* is answered 404 STUDENT_NOT_FOUND, an index at or beyond the number of the
\* student's enrolments 404 ENROLMENT_NOT_FOUND, and a key equal to that of an
\* enrolment at another index 409 ENROLMENT_ALREADY_EXISTS.
C16_UpdateRejections ==
  [][\A r \in Requests :
       LET q == reqs[r]
           q2 == reqs'[r] IN
       /\ (UpdateRequest(q2) /\ ~UpdateRequest(q) /\ ~IsIndex(q2.raw.index))
            => Answered(q2, 400, "INVALID_ENROLMENT_INDEX")
       /\ (UpdateRequest(q) /\ q.pc = "find" /\ q2 # q) =>
            IF findStudentById(q.body.id) = {}
              THEN Answered(q2, 404, "STUDENT_NOT_FOUND")
            ELSE IF q.body.index >= Len(StudentOf(q).enrolments)
              THEN Answered(q2, 404, "ENROLMENT_NOT_FOUND")
            ELSE IF buildEnrolmentKey(q.body.enrolment)
                      \in otherKeys(StudentOf(q).enrolments, q.body.index)
              THEN Answered(q2, 409, "ENROLMENT_ALREADY_EXISTS")
            ELSE q2.pc = "write"
       /\ (UpdateRequest(q2) /\ q2 # q /\ q2.pc = "done" /\ q2.status # 200)
            => students' = students]_vars

\* C16 for ids that are ObjectIds and with the index read as Number.parseInt reads
\* it (the numeric prefix of the parameter): the same rejections, in the same order.
C16_UpdateRejectionsAsParsed ==
  [][\A r \in Requests :
       LET q == reqs[r]
           q2 == reqs'[r] IN
       /\ (UpdateRequest(q2) /\ ~UpdateRequest(q)
             /\ (parseInt(q2.raw.index) = <<>> \/ parseInt(q2.raw.index)[1] < 0))
            => Answered(q2, 400, "INVALID_ENROLMENT_INDEX")
       /\ (UpdateRequest(q) /\ q.pc = "find" /\ q2 # q /\ IsObjectId(q.body.id)) =>
            IF findStudentById(q.body.id) = {}
              THEN Answered(q2, 404, "STUDENT_NOT_FOUND")
            ELSE IF q.body.index >= Len(StudentOf(q).enrolments)
              THEN Answered(q2, 404, "ENROLMENT_NOT_FOUND")
            ELSE IF buildEnrolmentKey(q.body.enrolment)
                      \in otherKeys(StudentOf(q).enrolments, q.body.index)
              THEN Answered(q2, 409, "ENROLMENT_ALREADY_EXISTS")
            ELSE q2.pc = "write"
       /\ (UpdateRequest(q2) /\ q2 # q /\ q2.pc = "done" /\ q2.status # 200)
            => students' = students]_vars

\* the key of the enrolment the update request q asks for
NewKey(q) == buildEnrolmentKey(normalizeEnrolment(q.body.enrolment))

\* C17: an update whose new key equals the key of the enrolment at the updated
\* index, and of no enrolment at any other index, is not answered 409 but goes on
\* to its write and is answered 200; 409 ENROLMENT_ALREADY_EXISTS is given only
\* when the key equals that of an enrolment at a different index.
C17_SameSlotUpdateAllowed ==
  [][\A r \in Requests :
       LET q == reqs[r]
           q2 == reqs'[r] IN
       /\ (UpdateRequest(q) /\ q.pc = "find" /\ q2 # q /\ findStudentById(q.body.id) # {}) =>
            LET enrolments == StudentOf(q).enrolments
                others == {j \in DOMAIN enrolments : j # q.body.index + 1} IN
            /\ ( /\ q.body.index < Len(enrolments)
                 /\ NewKey(q) = buildEnrolmentKey(enrolments[q.body.index + 1])
                 /\ \A j \in others : NewKey(q) # buildEnrolmentKey(enrolments[j]) )
                 => q2.pc = "write"
            /\ Answered(q2, 409, "ENROLMENT_ALREADY_EXISTS")
                 => \E j \in others : NewKey(q) = buildEnrolmentKey(enrolments[j])
       /\ (UpdateRequest(q) /\ q.pc = "write" /\ q2 # q) => Answered(q2, 200, "")]_vars

\* an update answered 200 that rewrote a slot with another spelling of the same key
C17_Witness ==
  \E r \in Requests :
    LET q == reqs[r] IN
    /\ UpdateRequest(q)
    /\ Answered(q, 200, "")
    /\ NewKey(q) = buildEnrolmentKey(q.body.enrolments[q.body.index + 1])
    /\ q.body.updatedEnrolments[q.body.index + 1] # q.body.enrolments[q.body.index + 1]
    /\ students[q.docId].enrolments = q.body.updatedEnrolments

\* the characters of the value that stand unescaped in the HTML built from it
Unescaped == {input.html[i] : i \in DOMAIN input.html} \cap {"&", "<", ">", "\"", "'"}

\* C18: every user-supplied value placed in the HTML body of a notification
\* e-mail (student submission, enrolment added, summary report, issue alert) is
\* HTML-escaped: none of the characters &, <, >, " and ' of the value appears
\* unescaped in the HTML.
C18_ValuesEscaped == input.email # "none" => Unescaped = {}

\* C18 for the three e-mails other than the issue alert, and every character of
\* the value still there, as itself or as its entity
C18_ValuesEscapedButIssueAlert ==
  input.email \in {"studentSubmission", "enrolmentAdded", "summaryReport"} =>
    /\ Unescaped = {}
    /\ Len(input.html) = Len(input.value) + 2
    /\ \A i \in DOMAIN input.value :
         input.html[i + 1] =
           CASE input.value[i] = "&" -> "&amp;"
             [] input.value[i] = "<" -> "&lt;"
             [] input.value[i] = ">" -> "&gt;"
             [] input.value[i] = "\"" -> "&quot;"
             [] input.value[i] = "'" -> "&#39;"
             [] input.value[i] = "\n" /\ input.email = "summaryReport" -> "<br />"
             [] OTHER -> input.value[i]


====
